---------------------------- MODULE Spec2Model ----------------------------
(***************************************************************************)
(* scripts/prepare_publish.py: main() reads Cargo.toml, deletes the        *)
(* elara-transport dependency block with re.sub, rewrites two feature      *)
(* lines with str.replace, makes sure `elara-transport = []` is declared,  *)
(* writes the file back and prints a confirmation.                         *)
(*                                                                         *)
(* A manifest is a sequence of tokens.  Each token is a substring of the   *)
(* text that the regular expression and the literals of main() tell apart; *)
(* the literals are token sequences, so matching on tokens is matching on  *)
(* characters for every text that is a concatenation of tokens.            *)
(***************************************************************************)
EXTENDS Integers, Sequences, FiniteSets

(* ------------------------------ tokens -------------------------------- *)
HASH   == "#"
SP     == " "
MARK   == "ELARA"
NL     == "\n"
X      == "x"
ET     == "elara-transport = "
BRACE  == "{ path = \"elara/crates/elara-transport\", optional = true }"
LB     == "["
RB     == "]"
DEPREF == "\"dep:elara-transport\""
EQ     == "elara = "
SUB    == "\"elara-transport\", "
TOK    == "\"tokio\""

(* the literals of main() *)
DEP == <<ET, BRACE>>
FA  == <<ET, LB, DEPREF, RB>>
FA0 == <<ET, LB, RB>>
FB  == <<EQ, LB, SUB, TOK, RB>>
FB1 == <<EQ, LB, TOK, RB>>
FB1FA0 == FB1 \o <<NL>> \o FA0

(* \s of the regular expression, on the tokens of the model *)
IsWs(t) == t \in {SP, NL}

(* ------------------------- bounded input texts ------------------------ *)
MaxPieces == 3
MaxRuns   == 2

(* the three-line block: marker comment, declaration, blank line *)
Block       == <<HASH, SP, MARK, NL>> \o DEP \o <<NL, NL>>
MarkLine    == <<HASH, SP, MARK, NL>>
CommentLine == <<HASH, X, NL>>
BraceNL     == <<BRACE, NL>>
FALine      == FA \o <<NL>>
FBLine      == FB \o <<NL>>

Pieces == {Block, MarkLine, CommentLine, <<ET>>, BraceNL, <<NL>>, <<SP>>, <<X>>,
           FALine, FBLine}

(* the pieces of the dependency block, for texts that nest them deeper *)
CorePieces == {Block, MarkLine, <<ET>>, BraceNL, <<NL>>}

RECURSIVE Texts(_, _)
Texts(P, n) == IF n = 0 THEN {<< >>}
               ELSE LET T == Texts(P, n - 1) IN T \cup {t \o p : t \in T, p \in P}

Manifests == Texts(Pieces, MaxPieces) \cup Texts(CorePieces, MaxPieces + 1)

(* the manifests the concurrent runs start from *)
RaceManifests == {Block \o FALine \o FBLine,
                  MarkLine \o <<ET>> \o Block \o BraceNL \o <<X, NL>>,
                  <<X, NL>> \o FBLine,
                  <<X, NL>>}

(* ------------------------- str and re helpers ------------------------- *)
(* s[i:].startswith(lit) *)
LitAt(s, i, lit) ==
    /\ i >= 1
    /\ i + Len(lit) - 1 <= Len(s)
    /\ \A k \in 1..Len(lit) : s[i + k - 1] = lit[k]

(* lit in s *)
Contains(s, lit) == \E i \in 1..Len(s) : LitAt(s, i, lit)

(* s.replace(old, new): every non-overlapping occurrence, left to right *)
RECURSIVE ReplaceFrom(_, _, _, _)
ReplaceFrom(s, i, old, new) ==
    IF i > Len(s) THEN << >>
    ELSE IF LitAt(s, i, old) THEN new \o ReplaceFrom(s, i + Len(old), old, new)
    ELSE <<s[i]>> \o ReplaceFrom(s, i + 1, old, new)

Replace(s, old, new) == ReplaceFrom(s, 1, old, new)

(* index of the first "\n" at or after i, 0 when there is none: [^\n]*\n *)
RECURSIVE LineEnd(_, _)
LineEnd(s, i) ==
    IF i > Len(s) THEN 0
    ELSE IF s[i] = NL THEN i
    ELSE LineEnd(s, i + 1)

(* a pattern without the comment-line loop *)
SkipNoComments(s, p) == p

(* (?:#[^\n]*\n)* from p: the index after the comment lines it consumes *)
RECURSIVE SkipComments(_, _)
SkipComments(s, p) ==
    IF p <= Len(s) /\ s[p] = HASH /\ LineEnd(s, p) # 0
    THEN SkipComments(s, LineEnd(s, p) + 1)
    ELSE p

(* a non-greedy \s*?\n: the first "\n" of the whitespace, not the last *)
RECURSIVE WsEndFirst(_, _, _)
WsEndFirst(s, p, last) ==
    IF p > Len(s) \/ ~IsWs(s[p]) THEN last
    ELSE IF s[p] = NL THEN p
    ELSE WsEndFirst(s, p + 1, last)

(* \s*\n from p: the index of the last "\n" of the whitespace that starts
   at p (\s* is greedy and gives back what follows that "\n"), 0 if none *)
RECURSIVE WsEnd(_, _, _)
WsEnd(s, p, last) ==
    IF p > Len(s) \/ ~IsWs(s[p]) THEN last
    ELSE WsEnd(s, p + 1, IF s[p] = NL THEN p ELSE last)

(* the end of the match of the pattern of re.sub that starts at i, 0 if the
   pattern does not match there *)
MatchEnd(s, i) ==
    IF ~LitAt(s, i, <<HASH, SP>>) THEN 0
    ELSE LET e1 == LineEnd(s, i + 2) IN
         IF e1 = 0 \/ ~(\E k \in (i + 2)..(e1 - 1) : s[k] = MARK) THEN 0
         ELSE LET d == SkipComments(s, e1 + 1) IN
              IF ~LitAt(s, d, DEP) THEN 0
              ELSE WsEnd(s, d + Len(DEP), 0)

(* re.sub(pattern, '', s, count=1): the first match only *)
RECURSIVE StripFirst(_, _)
StripFirst(s, i) ==
    IF i > Len(s) THEN << >>
    ELSE LET e == MatchEnd(s, i) IN
         IF e # 0 THEN SubSeq(s, e + 1, Len(s))
         ELSE <<s[i]>> \o StripFirst(s, i + 1)

(* re.sub(pattern, '', s): count = 0, every non-overlapping match *)
RECURSIVE StripFrom(_, _)
StripFrom(s, i) ==
    IF i > Len(s) THEN << >>
    ELSE LET e == MatchEnd(s, i) IN
         IF e # 0 THEN StripFrom(s, e + 1)
         ELSE <<s[i]>> \o StripFrom(s, i + 1)

StripBlock(s) == StripFrom(s, 1)

(* a replacement literal that ends with a line break of its own *)
NormAExtraLine(s) == Replace(s, FA, FA0 \o <<NL>>)

NormA(s) == Replace(s, FA, FA0)

(* s.replace(old, new, 1): the first occurrence only *)
NormBFirst(s) ==
    IF \E i \in 1..Len(s) : LitAt(s, i, FB)
    THEN LET i == CHOOSE i \in 1..Len(s) :
                      LitAt(s, i, FB) /\ \A k \in 1..(i - 1) : ~LitAt(s, k, FB)
         IN SubSeq(s, 1, i - 1) \o FB1 \o SubSeq(s, i + Len(FB), Len(s))
    ELSE s

NormB(s) == Replace(s, FB, FB1)

(* the append without the test for presence *)
EnsureAlways(s) == Replace(s, FB1, FB1FA0)

Ensure(s) == IF ~Contains(s, FA0) THEN Replace(s, FB1, FB1FA0) ELSE s

(* the buffer main() writes for the buffer it read *)
Rewrite(s) == Ensure(NormB(NormA(StripBlock(s))))

(* f.write(data) at offset 0 of a file that holds f *)
Overlay(data, f) == data \o SubSeq(f, Len(data) + 1, Len(f))

(* ------------------------------- state -------------------------------- *)
VARIABLES
    fexists,   \* Cargo.toml exists
    fdata,     \* its content
    pc,        \* pc[r]: where invocation r of main() stands
    content,   \* content[r]: the local buffer of invocation r
    exit,      \* exit[r]: the exit status, -1 while r has not exited
    printed,   \* printed[r]: confirmation lines r has printed
    hist,      \* hist[r]: the buffers r has held, from the loaded one on
    saved,     \* saved[r]: write_text of r has completed
    opened,    \* opened[r]: r has opened the file for writing
    origExists,\* Cargo.toml existed at the start
    orig,      \* and held this
    overlapped,\* some invocation loaded while another was between its load
               \* and the end of its save
    lastWriter \* the invocation whose write_text wrote last, 0 before any

vars == <<fexists, fdata, pc, content, exit, printed, hist, saved, opened,
          origExists, orig, overlapped, lastWriter>>

Runs == 1..MaxRuns

Busy(r) == pc[r] \in {"strip", "normA", "normB", "ensure", "save_open", "save_write"}

InitWith(e, d) ==
    /\ fexists = e
    /\ fdata = d
    /\ origExists = e
    /\ orig = d
    /\ pc = [r \in Runs |-> "load"]
    /\ content = [r \in Runs |-> << >>]
    /\ exit = [r \in Runs |-> -1]
    /\ printed = [r \in Runs |-> 0]
    /\ hist = [r \in Runs |-> << >>]
    /\ saved = [r \in Runs |-> FALSE]
    /\ opened = [r \in Runs |-> FALSE]
    /\ overlapped = FALSE
    /\ lastWriter = 0

Init == \/ \E d \in Manifests : InitWith(TRUE, d)
        \/ InitWith(FALSE, << >>)

InitRace == \/ \E d \in RaceManifests : InitWith(TRUE, d)
            \/ InitWith(FALSE, << >>)

(* ------------------------------ actions ------------------------------- *)
(* content = toml.read_text(encoding="utf-8") *)
Load(r) ==
    /\ pc[r] = "load"
    /\ fexists
    /\ content' = [content EXCEPT ![r] = fdata]
    /\ hist' = [hist EXCEPT ![r] = <<fdata>>]
    /\ pc' = [pc EXCEPT ![r] = "strip"]
    /\ overlapped' = (overlapped \/ \E q \in Runs \ {r} : Busy(q))
    /\ UNCHANGED <<fexists, fdata, exit, printed, saved, opened, origExists, orig,
                   lastWriter>>

(* a load that takes a file it cannot read for an empty one and goes on *)
LoadFailAsEmpty(r) ==
    /\ pc[r] = "load"
    /\ content' = [content EXCEPT ![r] = << >>]
    /\ hist' = [hist EXCEPT ![r] = << << >> >>]
    /\ pc' = [pc EXCEPT ![r] = "strip"]
    /\ UNCHANGED <<fexists, fdata, exit, printed, saved, opened, origExists, orig,
                   overlapped, lastWriter>>

(* read_text raises (no file, not readable, not UTF-8): the exception leaves
   main() and the interpreter exits with status 1 *)
LoadFail(r) ==
    /\ pc[r] = "load"
    /\ pc' = [pc EXCEPT ![r] = "load_failed"]
    /\ exit' = [exit EXCEPT ![r] = 1]
    /\ UNCHANGED <<fexists, fdata, content, printed, hist, saved, opened,
                   origExists, orig, overlapped, lastWriter>>

Transform(r, at, to, new) ==
    /\ pc[r] = at
    /\ content' = [content EXCEPT ![r] = new]
    /\ hist' = [hist EXCEPT ![r] = Append(@, new)]
    /\ pc' = [pc EXCEPT ![r] = to]
    /\ UNCHANGED <<fexists, fdata, exit, printed, saved, opened, origExists, orig,
                   overlapped, lastWriter>>

(* content = re.sub(..., '', content) *)
Strip(r) == Transform(r, "strip", "normA", StripBlock(content[r]))

(* content = content.replace('elara-transport = ["dep:elara-transport"]', ...) *)
NormalizeA(r) == Transform(r, "normA", "normB", NormA(content[r]))

(* content = content.replace('elara = ["elara-transport", "tokio"]', ...) *)
NormalizeB(r) == Transform(r, "normB", "ensure", NormB(content[r]))

(* if 'elara-transport = []' not in content: ... *)
EnsureDefault(r) == Transform(r, "ensure", "save_open", Ensure(content[r]))

(* open(mode="r+"): the file is opened for writing and keeps what it holds *)
SaveOpenNoTrunc(r) ==
    /\ pc[r] = "save_open"
    /\ fexists' = TRUE
    /\ opened' = [opened EXCEPT ![r] = TRUE]
    /\ pc' = [pc EXCEPT ![r] = "save_write"]
    /\ UNCHANGED <<fdata, content, exit, printed, hist, saved, origExists, orig,
                   overlapped, lastWriter>>

(* toml.write_text(content): open(mode="w") creates or truncates the file *)
SaveOpen(r) ==
    /\ pc[r] = "save_open"
    /\ fexists' = TRUE
    /\ fdata' = << >>
    /\ opened' = [opened EXCEPT ![r] = TRUE]
    /\ pc' = [pc EXCEPT ![r] = "save_write"]
    /\ UNCHANGED <<content, exit, printed, hist, saved, origExists, orig, overlapped, lastWriter>>

(* ... and the buffer goes out at offset 0 when the file is closed *)
SaveWrite(r) ==
    /\ pc[r] = "save_write"
    /\ fdata' = Overlay(content[r], fdata)
    /\ saved' = [saved EXCEPT ![r] = TRUE]
    /\ lastWriter' = r
    /\ pc' = [pc EXCEPT ![r] = "print"]
    /\ UNCHANGED <<fexists, content, exit, printed, hist, opened, origExists, orig,
                   overlapped>>

(* a save whose exception is caught and dropped: main() goes on to print *)
SaveFailSwallowed(r) ==
    /\ pc[r] \in {"save_open", "save_write"}
    /\ pc' = [pc EXCEPT ![r] = "print"]
    /\ UNCHANGED <<fexists, fdata, content, exit, printed, hist, saved, opened,
                   origExists, orig, overlapped, lastWriter>>

(* write_text raises: at open (the file is left as it was) or at the write
   (the file is left with some proper prefix of the buffer) *)
SaveFail(r) ==
    /\ \/ /\ pc[r] = "save_open"
          /\ UNCHANGED fdata
       \/ /\ pc[r] = "save_write"
          /\ \E k \in 0..(Len(content[r]) - 1) :
                fdata' = Overlay(SubSeq(content[r], 1, k), fdata)
    /\ pc' = [pc EXCEPT ![r] = "save_failed"]
    /\ exit' = [exit EXCEPT ![r] = 1]
    /\ UNCHANGED <<fexists, content, printed, hist, saved, opened, origExists, orig,
                   overlapped, lastWriter>>

(* print("Cargo.toml prepared for publish (elara-transport removed)") *)
Confirm(r) ==
    /\ pc[r] = "print"
    /\ printed' = [printed EXCEPT ![r] = @ + 1]
    /\ pc' = [pc EXCEPT ![r] = "return"]
    /\ UNCHANGED <<fexists, fdata, content, exit, hist, saved, opened, origExists,
                   orig, overlapped, lastWriter>>

(* return 0; sys.exit(main()) *)
Return(r) ==
    /\ pc[r] = "return"
    /\ exit' = [exit EXCEPT ![r] = 0]
    /\ pc' = [pc EXCEPT ![r] = "done"]
    /\ UNCHANGED <<fexists, fdata, content, printed, hist, saved, opened, origExists,
                   orig, overlapped, lastWriter>>

(* what main() does once it has read the file *)
Work(r) ==
    \/ Strip(r)
    \/ NormalizeA(r)
    \/ NormalizeB(r)
    \/ EnsureDefault(r)
    \/ SaveOpen(r)
    \/ SaveWrite(r)
    \/ SaveFail(r)
    \/ Confirm(r)
    \/ Return(r)

(* the script is run again once the run before it has succeeded *)
InTurn(r) == \A q \in Runs : q < r => pc[q] = "done"

Next ==
    \E r \in Runs :
        \/ InTurn(r) /\ Load(r)
        \/ InTurn(r) /\ LoadFail(r)
        \/ Work(r)

Spec == Init /\ [][Next]_vars

(* two or more invocations at once, nothing between them but the file *)
NextRace == \E r \in Runs : Load(r) \/ LoadFail(r) \/ Work(r)

SpecRace == InitRace /\ [][NextRace]_vars

(* ---------------------- what the claims speak of ---------------------- *)
Loaded(r)   == hist[r][1]
Stripped(r) == hist[r][2]
Written(r)  == hist[r][5]

(* the end-to-end manifest: the block, the feature line, the aggregate line *)
EndToEnd == Block \o FALine \o FBLine

LineStart(s, i) == i = 1 \/ s[i - 1] = NL

Cut(s, i, j) == SubSeq(s, 1, i - 1) \o SubSeq(s, j + 1, Len(s))

IsPrefix(a, b) == Len(a) <= Len(b) /\ SubSeq(b, 1, Len(a)) = a

Occ(s, lit) == Cardinality({i \in 1..Len(s) : LitAt(s, i, lit)})

(* the lines of s, without their line breaks *)
RECURSIVE Lines(_)
Lines(s) ==
    LET e == LineEnd(s, 1) IN
    IF e = 0 THEN <<s>>
    ELSE <<SubSeq(s, 1, e - 1)>> \o Lines(SubSeq(s, e + 1, Len(s)))

WholeLines(s, lit) ==
    LET L == Lines(s) IN Cardinality({k \in 1..Len(L) : L[k] = lit})

(* the tokens of s at the positions outside C, in order *)
RECURSIVE KeepFrom(_, _, _)
KeepFrom(s, k, C) ==
    IF k > Len(s) THEN << >>
    ELSE (IF k \in C THEN << >> ELSE <<s[k]>>) \o KeepFrom(s, k + 1, C)

(* s[i..j] is a block as the code takes it: from a "# " that has the marker
   after it on its line, over any further comment lines and the exact
   declaration, to the last line break of the whitespace after it *)
IsBlock(s, i, j) ==
    /\ LitAt(s, i, <<HASH, SP>>)
    /\ i < j /\ j <= Len(s) /\ s[j] = NL
    /\ \E d \in (i + 3)..(j - 2) :
          /\ LitAt(s, d, DEP)
          /\ s[d - 1] = NL
          /\ \A k \in (d + 2)..j : IsWs(s[k])
          /\ \E e \in (i + 2)..(d - 1) :
                /\ s[e] = NL
                /\ \A k \in (i + 2)..(e - 1) : s[k] # NL
                /\ \E k \in (i + 2)..(e - 1) : s[k] = MARK
                /\ \A k \in (e + 1)..(d - 1) : s[k - 1] = NL => s[k] = HASH
    /\ \A k \in (j + 1)..Len(s) : s[k] = NL => \E m \in (j + 1)..k : ~IsWs(s[m])

Blocks(s) ==
    UNION {{<<i, j>> : j \in {j \in (i + 1)..Len(s) : IsBlock(s, i, j)}} :
              i \in {i \in 1..Len(s) : LitAt(s, i, <<HASH, SP>>)}}

Cover(s) == UNION {p[1]..p[2] : p \in Blocks(s)}

BlockEnds(s) == {p[2] : p \in Blocks(s)}

(* the block as claim C1 words it, from the start of a line: marker comment
   lines, the declaration line, its line break and one blank line after it *)
ClaimBlock(s, i, j) ==
    /\ LineStart(s, i)
    /\ s[i] = HASH
    /\ \E d \in (i + 1)..(Len(s) - 2) :
          /\ LitAt(s, d, DEP)
          /\ s[d - 1] = NL
          /\ s[d + 2] = NL
          /\ \A k \in i..(d - 1) :
                LineStart(s, k) =>
                    s[k] = HASH /\ \E m \in k..LineEnd(s, k) : s[m] = MARK
          /\ j = IF d + 3 <= Len(s) /\ s[d + 3] = NL THEN d + 3 ELSE d + 2

ClaimBlocks(s) ==
    UNION {{<<i, j>> : j \in {j \in (i + 1)..Len(s) : ClaimBlock(s, i, j)}} :
              i \in {i \in 1..Len(s) : s[i] = HASH}}

(* ------------------------------- C1 ----------------------------------- *)
(* C1 as stated: in a manifest that holds the block once, the strip step
   removes that block (marker comment lines, declaration line, its line break
   and one following blank line) and nothing else. *)
C1_Original ==
    \A r \in Runs :
        pc[r] = "normA" =>
            LET L == Loaded(r) IN
            (Cardinality(ClaimBlocks(L)) = 1 /\ Occ(L, DEP) = 1) =>
                \A p \in ClaimBlocks(L) : Stripped(r) = Cut(L, p[1], p[2])

(* C1 as amended: the strip step removes exactly the blocks, a block reaching
   to the last line break of all the whitespace that follows the declaration;
   every token outside the blocks is kept, unchanged and in order. *)
C1_StripRemovesExactlyBlocks ==
    \A r \in Runs :
        pc[r] = "normA" =>
            Stripped(r) = KeepFrom(Loaded(r), 1, Cover(Loaded(r)))

C1_Witness ==
    \E r \in Runs :
        /\ pc[r] = "normA"
        /\ Loaded(r) = <<X, NL>> \o Block
        /\ Stripped(r) = <<X, NL>>

(* ------------------------------- C8 ----------------------------------- *)
(* C8 as stated: of two or more blocks the strip step removes the first and
   leaves every later one. *)
C8_Original ==
    \A r \in Runs :
        pc[r] = "normA" =>
            LET L == Loaded(r) IN
            Cardinality(BlockEnds(L)) >= 2 =>
                \E p \in Blocks(L) :
                    /\ \A q \in Blocks(L) : p[1] <= q[1]
                    /\ Stripped(r) = Cut(L, p[1], p[2])

(* C8 as amended: the strip step removes every block, not the first alone:
   with two or more blocks in the manifest the buffer is shorter by all of
   them. *)
C8_StripRemovesEveryBlock ==
    \A r \in Runs :
        pc[r] = "normA" =>
            LET L == Loaded(r) IN
            Cardinality(BlockEnds(L)) >= 2 =>
                Len(Stripped(r)) = Len(L) - Cardinality(Cover(L))

C8_Witness ==
    \E r \in Runs :
        /\ pc[r] = "normA"
        /\ Loaded(r) = Block \o CommentLine \o Block
        /\ Stripped(r) = CommentLine

(* ------------------------------- C9 ----------------------------------- *)
CommentStarts(s) == {k \in 1..Len(s) : s[k] = HASH /\ LineStart(s, k)}

(* the comment lines from c on, c the first of them, run up to a declaration
   line at d that is ended by a line break, and one of them holds the marker *)
QualRun(s, c, d) ==
    /\ c \in CommentStarts(s)
    /\ ~\E b \in CommentStarts(s) : b < c /\ LineEnd(s, b) = c - 1
    /\ c < d
    /\ LitAt(s, d, DEP)
    /\ s[d - 1] = NL
    /\ WsEnd(s, d + 2, 0) # 0
    /\ \A k \in c..(d - 1) : LineStart(s, k) => s[k] = HASH
    /\ \E k \in c..(d - 1) : s[k] = MARK

NoInlineHash(s) == \A k \in 1..Len(s) : s[k] = HASH => LineStart(s, k)

(* every "#" starts a line, and every comment line is of such a run *)
AllCommentsQualify(s) ==
    /\ NoInlineHash(s)
    /\ \A k \in CommentStarts(s) :
          \E c \in CommentStarts(s), d \in 1..Len(s) : c <= k /\ k < d /\ QualRun(s, c, d)

(* a comment line that starts with "# " and holds the marker *)
MarkerLine(s, k) ==
    /\ LitAt(s, k, <<HASH, SP>>)
    /\ \E m \in k..LineEnd(s, k) : s[m] = MARK

(* the comment lines of a run that come before its first marker line *)
BeforeMarker(s) ==
    {k \in CommentStarts(s) :
        \E c \in CommentStarts(s), d \in 1..Len(s) :
            /\ c <= k /\ k < d /\ QualRun(s, c, d)
            /\ \A m \in CommentStarts(s) : (c <= m /\ m <= k) => ~MarkerLine(s, m)}

(* the comment lines of a run from its first marker line on *)
FromMarker(s) ==
    {k \in CommentStarts(s) :
        \E c \in CommentStarts(s), d \in 1..Len(s) :
            /\ c <= k /\ k < d /\ QualRun(s, c, d)
            /\ \E m \in CommentStarts(s) : c <= m /\ m <= k /\ MarkerLine(s, m)}

(* every declaration ends such a run, and the run has a marker line *)
AllDeclsMarked(s) ==
    \A d \in 1..Len(s) :
        LitAt(s, d, DEP) =>
            \E c \in CommentStarts(s), m \in CommentStarts(s) :
                QualRun(s, c, d) /\ c <= m /\ m < d /\ MarkerLine(s, m)

(* C9 as stated: the declaration goes with every comment line of the run
   before it, wherever in the run the marker is: where every comment line is
   of such a run, no comment line is left. *)
C9_Original ==
    \A r \in Runs :
        pc[r] = "normA" =>
            (AllCommentsQualify(Loaded(r)) => CommentStarts(Stripped(r)) = {})

(* C9 as amended, for a manifest in which every "#" starts a line: the
   declaration goes with the comment lines of its run from the first marker
   line ("# " with the marker after it) on, and with no other comment line;
   the comment lines of the run before that line stay. *)
C9_StripFromFirstMarkerLine ==
    \A r \in Runs :
        pc[r] = "normA" =>
            LET L == Loaded(r) IN
            NoInlineHash(L) =>
                /\ Cardinality(CommentStarts(Stripped(r)))
                      = Cardinality(CommentStarts(L)) - Cardinality(FromMarker(L))
                /\ AllCommentsQualify(L) =>
                      Cardinality(CommentStarts(Stripped(r))) = Cardinality(BeforeMarker(L))
                /\ AllDeclsMarked(L) => ~Contains(Stripped(r), DEP)

C9_Witness ==
    \E r \in Runs :
        /\ pc[r] = "normA"
        /\ Loaded(r) = CommentLine \o MarkLine \o Block
        /\ Stripped(r) = CommentLine

(* ------------------------------- C2 ----------------------------------- *)
(* C2: after a run that saved, the written file holds no two-element
   aggregate line: every one of the stripped buffer reads elara = ["tokio"]
   where it stood, none is lost and none is added, and the aggregate lines of
   the manifest are among them; the end-to-end manifest comes out as
   elara-transport = [] and elara = ["tokio"], and the run that is done has
   printed the confirmation. *)
C2_AggregateHasOneSubFeature ==
    \A r \in Runs :
        /\ pc[r] = "print" =>
              LET L == Loaded(r)
                  S == Stripped(r)
                  W == Written(r)
                  A == Lines(hist[r][3])
                  B == Lines(hist[r][4])
              IN  /\ fdata = W
                  /\ ~Contains(W, FB)
                  /\ Occ(W, FB1) = Occ(S, FB1) + Occ(S, FB)
                  /\ WholeLines(L, FB) <= Occ(S, FB)
                  /\ \A k \in 1..Len(A) : A[k] = FB => B[k] = FB1
                  /\ L = EndToEnd => W = FA0 \o <<NL>> \o FB1 \o <<NL>>
        /\ pc[r] = "done" => printed[r] = 1

C2_Witness ==
    \E r \in Runs :
        /\ pc[r] = "done"
        /\ Loaded(r) = EndToEnd
        /\ Written(r) = FA0 \o <<NL>> \o FB1 \o <<NL>>
        /\ printed[r] = 1

(* ------------------------------- C3 ----------------------------------- *)
SameLinesButFA(L, W) ==
    LET LL == Lines(L)
        LW == Lines(W)
    IN  /\ Len(LW) = Len(LL)
        /\ \A k \in 1..Len(LL) : LW[k] = IF LL[k] = FA THEN FA0 ELSE LL[k]

(* C3 as stated: where the manifest declares feature A with the dep:
   reference (on lines of its own), the written file has that line as the
   empty list and every other line as in the input. *)
C3_Original ==
    \A r \in Runs :
        pc[r] = "print" =>
            LET L == Loaded(r) IN
            (WholeLines(L, FA) >= 1 /\ Occ(L, FA) = WholeLines(L, FA)) =>
                SameLinesButFA(L, fdata)

(* C3 as amended: that holds where the manifest has no block and no
   two-element aggregate line for the other steps to change, and of the lines
   that do not hold the literal: the replacement is of the literal wherever it
   stands, not of whole lines. *)
C3_OnlyFeatureLineChanges ==
    \A r \in Runs :
        pc[r] = "print" =>
            LET L == Loaded(r) IN
            (WholeLines(L, FA) >= 1 /\ Blocks(L) = {} /\ ~Contains(L, FB)) =>
                LET LL == Lines(L)
                    LW == Lines(fdata)
                IN  /\ Len(LW) = Len(LL)
                    /\ \A k \in 1..Len(LL) :
                          /\ LL[k] = FA => LW[k] = FA0
                          /\ ~Contains(LL[k], FA) => LW[k] = LL[k]

C3_Witness ==
    \E r \in Runs :
        /\ pc[r] = "print"
        /\ Loaded(r) = CommentLine \o FALine \o <<X>>
        /\ fdata = CommentLine \o FA0 \o <<NL, X>>

(* ------------------------------- C4 ----------------------------------- *)
(* C4: where the buffer after the block removal holds neither replacement
   target nor elara-transport = [], the written file holds
   elara-transport = []. *)
C4_DefaultPresenceEnsured ==
    \A r \in Runs :
        pc[r] = "print" =>
            LET S == Stripped(r) IN
            (~Contains(S, FA) /\ ~Contains(S, FB) /\ ~Contains(S, FA0)) =>
                Contains(fdata, FA0)

(* ------------------------------- C5 ----------------------------------- *)
(* C5 as stated: a second run on the file a first run wrote writes the same
   content again. *)
C5_Original ==
    \A r \in Runs :
        (r > 1 /\ pc[r] = "print") => fdata = Written(r - 1)

(* C5 as amended: it does so where the block removal of the first run left
   no block behind (a block set inside the pieces of another is uncovered by
   the first run and removed by the second). *)
C5_SecondRunWritesTheSame ==
    \A r \in Runs :
        (r > 1 /\ pc[r] = "print" /\ Blocks(Stripped(r - 1)) = {}) =>
            /\ fdata = Written(r - 1)
            /\ Stripped(r) = Loaded(r)
            /\ Written(r) = Loaded(r)

C5_Witness ==
    \E r \in Runs :
        /\ r > 1
        /\ pc[r] = "print"
        /\ Loaded(1) = Block \o FBLine
        /\ Written(1) = FB1 \o <<NL>> \o FA0 \o <<NL>>
        /\ fdata = Written(1)

(* ------------------------------- C6 ----------------------------------- *)
Terminated(r) == pc[r] \in {"done", "load_failed", "save_failed"}

(* C6: an invocation exits with status 0 exactly when its load and its save
   succeeded, and then it has printed the confirmation once, after the write;
   one whose load or save failed exits with a non-zero status and has printed
   nothing. *)
C6_ExitStatusAndConfirmation ==
    \A r \in Runs :
        /\ printed[r] \in {0, 1}
        /\ printed[r] = 1 => (saved[r] /\ Len(hist[r]) = 5 /\ fexists)
        /\ exit[r] = 0 <=> pc[r] = "done"
        /\ pc[r] = "done" => (printed[r] = 1 /\ saved[r])
        /\ (Terminated(r) /\ saved[r]) => (exit[r] = 0 /\ printed[r] = 1)
        /\ pc[r] \in {"load_failed", "save_failed"} =>
              (exit[r] > 0 /\ printed[r] = 0 /\ ~saved[r])
        /\ exit[r] # -1 => Terminated(r)

C6_Witness ==
    /\ pc[1] = "done" /\ exit[1] = 0 /\ printed[1] = 1
    /\ pc[2] = "save_failed" /\ exit[2] = 1 /\ printed[2] = 0

(* ------------------------------- C7 ----------------------------------- *)
(* C7: an invocation whose load failed has transformed nothing, has not
   opened the file for writing and has a non-zero exit status; a manifest
   that was missing is still missing. *)
C7_MissingManifestAborts ==
    /\ \A r \in Runs :
          pc[r] = "load_failed" =>
              /\ exit[r] > 0
              /\ hist[r] = << >>
              /\ content[r] = << >>
              /\ ~opened[r]
              /\ ~saved[r]
    /\ ~origExists =>
          /\ ~fexists
          /\ fdata = << >>
          /\ \A r \in Runs : pc[r] \in {"load", "load_failed"}

C7_Witness ==
    /\ ~origExists
    /\ pc[1] = "load_failed"
    /\ exit[1] = 1
    /\ ~fexists

(* ------------------------------- C10 ---------------------------------- *)
AllDone == \A r \in Runs : pc[r] = "done"

RECURSIVE RewriteTimes(_, _)
RewriteTimes(s, n) == IF n = 0 THEN s ELSE RewriteTimes(Rewrite(s), n - 1)

(* C10 as stated: when all invocations are done the file holds what the last
   writer wrote, and what the rewrite makes of the original manifest when no
   invocation loaded while another was between its load and its save. *)
C10_Original ==
    AllDone =>
        /\ fdata = content[lastWriter]
        /\ ~overlapped => fdata = Rewrite(orig)

(* C10 as amended: the file starts with what the last writer wrote (what an
   earlier writer wrote past its end, between the last writer's truncation and
   its write, stays); without overlap it holds the original rewritten once by
   each invocation, which is the rewrite of the original where the block
   removal leaves no block behind. *)
C10_UnsynchronizedRuns ==
    AllDone =>
        /\ IsPrefix(content[lastWriter], fdata)
        /\ ~overlapped =>
              /\ fdata = RewriteTimes(orig, MaxRuns)
              /\ Blocks(StripBlock(orig)) = {} => fdata = Rewrite(orig)

(* the overlap that corrupts: an invocation loaded the truncated file *)
C10_Witness ==
    /\ AllDone
    /\ overlapped
    /\ orig = EndToEnd
    /\ fdata = << >>
    /\ Rewrite(orig) # << >>

=============================================================================
